---- MODULE Spec2Model ----
(***************************************************************************)
(* gcpenum (src/main.go): candidate bucket-name generation and the         *)
(* bounded-concurrency scan.                                               *)
(*                                                                         *)
(* Two specifications share the module:                                    *)
(*   GenSpec   main's set-up, lines 201-235: the keywords and the wordlist *)
(*             are read and generatePermutations is applied per keyword;   *)
(*   Spec      main's scan, lines 237-266: the candidate goroutines, the   *)
(*             semaphore, the WaitGroup, the output channel and its        *)
(*             consumer.  FairSpec is Spec with the scheduler's fairness.  *)
(* Go strings are sequences of one-character strings, so that              *)
(* strings.ReplaceAll is computed on the characters.                       *)
(***************************************************************************)
EXTENDS Integers, Sequences, FiniteSets, TLC

VARIABLES
    \* ---- set-up (GenSpec) ----
    keywordFlag,    \* *keyword, the -n flag ("" when absent)
    keywordList,    \* the file named by -l: NoFlag, Unreadable, or its lines
    wordlistFile,   \* the file at wordlistPath: Unreadable, or its lines
    outFile,        \* os.Create of the -o file: "none" (no -o), "ok", "fail";
                    \* "unset" until line 227 looks at the flag
    setupPc,        \* main's position in lines 201-235
    keywords,       \* main's keywords slice
    kwIdx,          \* number of keywords the loop of line 220 has handled
    perKeyword,     \* the result of each generatePermutations call so far
    buckets,        \* main's buckets slice
    stdout,         \* what main has printed during set-up
    \* ---- scan (Spec) ----
    concurrency,    \* *subprocesses, the -c flag
    verbose,        \* *verbose, the -v flag
    nCand,          \* len(buckets) of the scan
    mainPc,         \* main's position in lines 241-266
    proc,           \* the process: "running", "exited", or the panic that ended it
    spawned,        \* number of iterations of the loop of line 243 done
    wg,             \* the WaitGroup counter
    sem,            \* number of elements buffered in the sem channel
    pc,             \* each candidate goroutine's position
    metaAnswer,     \* what the metadata endpoint answers to each candidate
    listAnswer,     \* what the object-index endpoint answers to each candidate
    objIdx,         \* listObjects' loop index over objectList.Items
    closed,         \* close(output) has run
    consumerPc,     \* the consumer goroutine of lines 252-259
    received,       \* lines the consumer has received from output, in order
    printed         \* lines the consumer has printed, in order

genVars  == <<keywordFlag, keywordList, wordlistFile, outFile, setupPc,
              keywords, kwIdx, perKeyword, buckets, stdout>>
scanVars == <<concurrency, verbose, nCand, mainPc, proc, spawned, wg, sem, pc,
              metaAnswer, listAnswer, objIdx, closed, consumerPc, received, printed>>
vars     == <<genVars, scanVars>>

-----------------------------------------------------------------------------
(* Bounds of the model.  Object names are drawn from ObjectNames, without   *)
(* repetition within one index.                                            *)

MaxKeywords == 2      \* lines of the keyword list file
MaxSuffixes == 2      \* lines of the wordlist file
MaxCand     == 2      \* candidates of a scan
MaxConc     == 2      \* largest value of -c
MaxItems    == 2      \* items of an object index

-----------------------------------------------------------------------------
(* Strings *)

Placeholder_keyword == <<"{", "k", "e", "y", "w", "o", "r", "d", "}">>
Placeholder_suffix  == <<"{", "s", "u", "f", "f", "i", "x", "}">>

\* All sequences over S of length 0..n
RECURSIVE SeqsUpTo(_, _)
SeqsUpTo(S, n) ==
    IF n = 0 THEN {<<>>}
    ELSE LET shorter == SeqsUpTo(S, n - 1)
         IN  shorter \cup {Append(q, x) : q \in {r \in shorter : Len(r) = n - 1}, x \in S}

HasPrefix(s, p) ==
    /\ Len(p) <= Len(s)
    /\ \A j \in 1..Len(p) : s[j] = p[j]

\* strings.ReplaceAll(s, old, new) for a non-empty old: the non-overlapping
\* instances of old, found left to right, are replaced by new.
RECURSIVE ReplaceAll(_, _, _)
ReplaceAll(s, old, new) ==
    IF Len(s) < Len(old) THEN s
    ELSE IF HasPrefix(s, old)
         THEN new \o ReplaceAll(SubSeq(s, Len(old) + 1, Len(s)), old, new)
         ELSE <<Head(s)>> \o ReplaceAll(Tail(s), old, new)

Range(q) == {q[j] : j \in 1..Len(q)}

NoDuplicates(q) == \A a, b \in 1..Len(q) : a # b => q[a] # q[b]

RECURSIVE Flatten(_)
Flatten(qq) == IF qq = <<>> THEN <<>> ELSE Head(qq) \o Flatten(Tail(qq))

-----------------------------------------------------------------------------
(* Name Generator: generatePermutations and removeDuplicates *)

permutations ==
    << Placeholder_keyword \o <<"-">> \o Placeholder_suffix,
       Placeholder_suffix \o <<"-">> \o Placeholder_keyword,
       Placeholder_keyword \o <<"_">> \o Placeholder_suffix,
       Placeholder_suffix \o <<"_">> \o Placeholder_keyword,
       Placeholder_keyword \o Placeholder_suffix,
       Placeholder_suffix \o Placeholder_keyword >>

\* The loop of lines 108-113: v is appended to result unless seen already
\* (seen holds exactly the values of result).
RECURSIVE removeDuplicatesLoop(_, _)
removeDuplicatesLoop(input, result) ==
    IF input = <<>> THEN result
    ELSE removeDuplicatesLoop(Tail(input),
                              IF Head(input) \in Range(result)
                              THEN result
                              ELSE Append(result, Head(input)))

\* Faulty variant: nothing is dropped.
removeDuplicatesKeepsAll(input) == input

removeDuplicates(input) == removeDuplicatesLoop(input, <<>>)

\* One iteration of the inner loop, lines 94-95: the keyword is substituted
\* first, the suffix second, in the string the first substitution produced.
ExpandTemplate(template, keyword, suffix) ==
    ReplaceAll(ReplaceAll(template, Placeholder_keyword, keyword),
               Placeholder_suffix, suffix)

\* The loops of lines 92-98: for each suffix in order, the six templates.
TemplateExpansions(keyword, suffixes) ==
    Flatten([j \in 1..Len(suffixes) |->
                [t \in 1..Len(permutations) |->
                    ExpandTemplate(permutations[t], keyword, suffixes[j])]])

\* Faulty variant of line 100: the ".org" form is left out.
KeywordOnlyFormsNoOrg(keyword) ==
    << keyword,
       keyword \o <<".", "c", "o", "m">>,
       keyword \o <<".", "n", "e", "t">> >>

\* The values appended by line 100.
KeywordOnlyForms(keyword) ==
    << keyword,
       keyword \o <<".", "c", "o", "m">>,
       keyword \o <<".", "n", "e", "t">>,
       keyword \o <<".", "o", "r", "g">> >>

\* generatePermutations, with the lines of the wordlist file as suffixes.
generatePermutations(keyword, suffixes) ==
    removeDuplicates(TemplateExpansions(keyword, suffixes) \o KeywordOnlyForms(keyword))

-----------------------------------------------------------------------------
(* Inputs of the set-up *)

NoFlag     == [kind |-> "noflag", lines |-> <<>>]      \* the flag is ""
Unreadable == [kind |-> "unreadable", lines |-> <<>>]  \* os.Open or the scanner fails
File(lines) == [kind |-> "file", lines |-> lines]      \* scanner.Text() of each line

KeywordChoices == { <<>>, <<"a">>, <<"a", "b">>, Placeholder_suffix }
SuffixChoices  == { <<>>, <<"a">>, <<"b">>, Placeholder_keyword }
FlagChoices    == { <<>>, <<"a">>, Placeholder_suffix }

Message(text, n, k) == [text |-> text, n |-> n, k |-> k]

-----------------------------------------------------------------------------
(* The provider's endpoints, and net/http *)

\* Response bodies are sequences of words.
AccessDenied == <<"Access", "denied">>
DoesNotHave  == <<"does", "not", "have">>

DeniedBody      == <<"Access", "denied", "for", "bucket">>
NoAccessBody    == <<"caller", "does", "not", "have", "storage.buckets.get", "access">>
UnrelatedBody   == <<"Forbidden">>

\* bytes.Contains
Contains(b, subslice) ==
    \E j \in 0..(Len(b) - Len(subslice)) : SubSeq(b, j + 1, j + Len(subslice)) = subslice

NoAnswer      == [err |-> FALSE, status |-> 0, body |-> <<>>]
NoIndexAnswer == [err |-> FALSE, status |-> 0, decodable |-> FALSE, items |-> <<>>]

\* What the metadata endpoint can answer: a transport failure, or a status
\* with the body the endpoint attaches to it.
MetadataAnswers ==
    {[err |-> TRUE, status |-> 0, body |-> <<>>]}
    \cup {[err |-> FALSE, status |-> st, body |-> <<>>] : st \in {200, 404, 500}}
    \cup {[err |-> FALSE, status |-> 403, body |-> b] :
             b \in {DeniedBody, NoAccessBody, UnrelatedBody}}

ObjectNames == {"a.txt", "b.txt"}

\* What the object-index endpoint can answer: a transport failure, a 200 whose
\* body is not JSON, a 200 with an items array (the objects of a bucket have
\* distinct names), or another status.
IndexAnswers ==
    {[err |-> TRUE, status |-> 0, decodable |-> FALSE, items |-> <<>>]}
    \cup {[err |-> FALSE, status |-> 200, decodable |-> FALSE, items |-> <<>>]}
    \cup {[err |-> FALSE, status |-> 200, decodable |-> TRUE, items |-> it] :
             it \in {q \in SeqsUpTo(ObjectNames, MaxItems) : NoDuplicates(q)}}
    \cup {[err |-> FALSE, status |-> 403, decodable |-> FALSE, items |-> <<>>]}

\* http.Head: the response to a HEAD request carries the status and the
\* headers of the answer and no content; resp.Body reads as empty.
httpHead(answer) == [answer EXCEPT !.body = <<>>]

\* A line sent on output.  src is the index in buckets of the candidate whose
\* goroutine sends it; name is the object's name on an object line.
Line(i, kind, name) == [src |-> i, kind |-> kind, name |-> name]

-----------------------------------------------------------------------------
(* The scan's state while the set-up runs, and the set-up's while the scan runs *)

ScanIdle ==
    /\ concurrency = 1 /\ verbose = FALSE /\ nCand = 0
    /\ mainPc = "setup" /\ proc = "running"
    /\ spawned = 0 /\ wg = 0 /\ sem = 0
    /\ pc = [i \in 1..MaxCand |-> "unspawned"]
    /\ metaAnswer = [i \in 1..MaxCand |-> NoAnswer]
    /\ listAnswer = [i \in 1..MaxCand |-> NoIndexAnswer]
    /\ objIdx = [i \in 1..MaxCand |-> 0]
    /\ closed = FALSE /\ consumerPc = "unspawned"
    /\ received = <<>> /\ printed = <<>>

GenIdle ==
    /\ keywordFlag = <<>> /\ keywordList = NoFlag /\ wordlistFile = File(<<>>)
    /\ outFile = "none" /\ setupPc = "scan"
    /\ keywords = <<>> /\ kwIdx = 0 /\ perKeyword = <<>> /\ buckets = <<>>
    /\ stdout = <<>>

-----------------------------------------------------------------------------
(* main, lines 199-235: the set-up *)

GenInit ==
    /\ \/ /\ keywordFlag \in FlagChoices
          /\ keywordList = NoFlag
       \/ /\ keywordFlag \in {<<>>, <<"a">>}
          /\ keywordList \in {Unreadable}
                         \cup {File(l) : l \in SeqsUpTo(KeywordChoices, MaxKeywords)}
    /\ wordlistFile \in {Unreadable}
                         \cup {File(l) : l \in SeqsUpTo(SuffixChoices, MaxSuffixes)}
    /\ outFile = "unset"
    /\ setupPc = "L201"
    /\ keywords = <<>> /\ kwIdx = 0 /\ perKeyword = <<>> /\ buckets = <<>>
    /\ stdout = <<>>
    /\ ScanIdle

\* Lines 201-205: neither -n nor -l.
CheckFlags ==
    /\ setupPc = "L201"
    /\ IF keywordFlag = <<>> /\ keywordList = NoFlag
       THEN /\ stdout' = Append(stdout, Message("ERROR: Provide either a keyword", 0, 0))
            /\ setupPc' = "returned"
       ELSE /\ setupPc' = "L213"
            /\ UNCHANGED stdout
    /\ UNCHANGED <<keywordFlag, keywordList, wordlistFile, outFile, keywords, kwIdx,
                   perKeyword, buckets, scanVars>>

\* Faulty variant: readLinesFromFile reports the file error and returns no
\* lines instead of exiting.
ReadKeywordsNoExit ==
    /\ setupPc = "L213"
    /\ IF keywordList # NoFlag
       THEN IF keywordList = Unreadable
            THEN /\ stdout' = Append(stdout, Message("ERROR: Unable to read file", 0, 0))
                 /\ setupPc' = "L220"
                 /\ keywords' = <<>>
            ELSE /\ keywords' = keywordList.lines
                 /\ setupPc' = "L220"
                 /\ UNCHANGED stdout
       ELSE /\ keywords' = <<keywordFlag>>
            /\ setupPc' = "L220"
            /\ UNCHANGED stdout
    /\ UNCHANGED <<keywordFlag, keywordList, wordlistFile, outFile, kwIdx,
                   perKeyword, buckets, scanVars>>

\* Lines 212-217: -l wins over -n; readLinesFromFile exits on a file error.
ReadKeywords ==
    /\ setupPc = "L213"
    /\ IF keywordList # NoFlag
       THEN IF keywordList = Unreadable
            THEN /\ stdout' = Append(stdout, Message("ERROR: Unable to read file", 0, 0))
                 /\ setupPc' = "exit1"
                 /\ UNCHANGED keywords
            ELSE /\ keywords' = keywordList.lines
                 /\ setupPc' = "L220"
                 /\ UNCHANGED stdout
       ELSE /\ keywords' = <<keywordFlag>>
            /\ setupPc' = "L220"
            /\ UNCHANGED stdout
    /\ UNCHANGED <<keywordFlag, keywordList, wordlistFile, outFile, kwIdx,
                   perKeyword, buckets, scanVars>>

\* Lines 220-222, one iteration: generatePermutations reads the wordlist
\* (line 89, exiting on a file error) and its result is appended to buckets.
GenerateForKeyword ==
    /\ setupPc = "L220"
    /\ kwIdx < Len(keywords)
    /\ IF wordlistFile = Unreadable
       THEN /\ stdout' = Append(stdout, Message("ERROR: Unable to read file", 0, 0))
            /\ setupPc' = "exit1"
            /\ UNCHANGED <<kwIdx, perKeyword, buckets>>
       ELSE LET result == generatePermutations(keywords[kwIdx + 1], wordlistFile.lines)
            IN  /\ perKeyword' = Append(perKeyword, result)
                /\ buckets' = buckets \o result
                /\ kwIdx' = kwIdx + 1
                /\ UNCHANGED <<stdout, setupPc>>
    /\ UNCHANGED <<keywordFlag, keywordList, wordlistFile, outFile, keywords, scanVars>>

\* Line 224, once the loop is over.
PrintGenerated ==
    /\ setupPc = "L220"
    /\ kwIdx = Len(keywords)
    /\ stdout' = Append(stdout, Message("Generated", Len(buckets), Len(keywords)))
    /\ setupPc' = "L226"
    /\ UNCHANGED <<keywordFlag, keywordList, wordlistFile, outFile, keywords, kwIdx,
                   perKeyword, buckets, scanVars>>

\* Lines 226-235: os.Create of the -o file.
CreateOutputFile ==
    /\ setupPc = "L226"
    /\ outFile' \in {"none", "ok", "fail"}
    /\ IF outFile' = "fail"
       THEN /\ stdout' = Append(stdout, Message("ERROR: Could not create output file", 0, 0))
            /\ setupPc' = "returned"
       ELSE /\ setupPc' = "scan"
            /\ UNCHANGED stdout
    /\ UNCHANGED <<keywordFlag, keywordList, wordlistFile, keywords, kwIdx,
                   perKeyword, buckets, scanVars>>

GenNext ==
    \/ CheckFlags
    \/ ReadKeywords
    \/ GenerateForKeyword
    \/ PrintGenerated
    \/ CreateOutputFile

GenSpec == GenInit /\ [][GenNext]_vars

-----------------------------------------------------------------------------
(* main, lines 237-266, checkBucket and listObjects: the scan *)

Init ==
    /\ concurrency \in -1..MaxConc
    /\ verbose \in BOOLEAN
    /\ nCand \in 0..MaxCand
    /\ mainPc = "L241" /\ proc = "running"
    /\ spawned = 0 /\ wg = 0 /\ sem = 0
    /\ pc = [i \in 1..MaxCand |-> "unspawned"]
    /\ metaAnswer = [i \in 1..MaxCand |-> NoAnswer]
    /\ listAnswer = [i \in 1..MaxCand |-> NoIndexAnswer]
    /\ objIdx = [i \in 1..MaxCand |-> 0]
    /\ closed = FALSE /\ consumerPc = "unspawned"
    /\ received = <<>> /\ printed = <<>>
    /\ GenIdle

Running == proc = "running"

\* ---- the semaphore and the WaitGroup ----

\* Faulty variant: one send too many is let through.
SemCanSendOverfull(n, cap) == n <= cap

\* sem <- struct{}{} proceeds while the buffer holds fewer than cap elements
\* (with cap = 0 it needs a receiver, and receivers have sent before).
SemCanSend(n, cap) == n < cap

\* Faulty variant: the permit is not taken out of the buffer.
SemAfterRecvLeak(n) == n

\* <-sem takes one element out of the buffer.
SemAfterRecv(n) == n - 1

\* Faulty variant: wg.Done is left out.
WgAfterDoneForgotten(w) == w

\* wg.Done
WgAfterDone(w) == w - 1

\* Faulty variant: main does not wait for the counter.
WgWaitReturnsAtOnce(w) == TRUE

\* wg.Wait returns when the counter is zero.
WgWaitReturns(w) == w = 0

\* ---- checkBucket and listObjects: where control goes ----

\* Faulty variant: the verbose test of line 163 is left out.
checkBucketSwitchAlwaysUnknown(resp, v) ==
    IF resp.err THEN "L145"
    ELSE IF resp.status = 404 THEN "L138"
    ELSE IF resp.status = 403
         THEN IF Contains(resp.body, AccessDenied) \/ Contains(resp.body, DoesNotHave)
              THEN "L138"
              ELSE "L158"
    ELSE IF resp.status = 200 THEN "L160"
    ELSE "L164"

\* Faulty variant: a transport error returns without the send of line 145.
checkBucketSwitchSilentError(resp, v) ==
    IF resp.err THEN "L138"
    ELSE IF resp.status = 404 THEN "L138"
    ELSE IF resp.status = 403
         THEN IF Contains(resp.body, AccessDenied) \/ Contains(resp.body, DoesNotHave)
              THEN "L138"
              ELSE "L158"
    ELSE IF resp.status = 200 THEN "L160"
    ELSE IF v THEN "L164" ELSE "L138"

\* Faulty variant: case 404 is missing, so that 404 falls to default.
checkBucketSwitchNo404(resp, v) ==
    IF resp.err THEN "L145"
    ELSE IF resp.status = 403
         THEN IF Contains(resp.body, AccessDenied) \/ Contains(resp.body, DoesNotHave)
              THEN "L138"
              ELSE "L158"
    ELSE IF resp.status = 200 THEN "L160"
    ELSE IF v THEN "L164" ELSE "L138"

\* Lines 144-166: the statement the goroutine reaches after http.Head
\* returned resp ("L138" is the deferred wg.Done of a return).
checkBucketSwitch(resp, v) ==
    IF resp.err THEN "L145"
    ELSE IF resp.status = 404 THEN "L138"
    ELSE IF resp.status = 403
         THEN IF Contains(resp.body, AccessDenied) \/ Contains(resp.body, DoesNotHave)
              THEN "L138"
              ELSE "L158"
    ELSE IF resp.status = 200 THEN "L160"
    ELSE IF v THEN "L164" ELSE "L138"

\* Faulty variant: the return of line 183 is left out.
listObjectsSwitchNoReturn(resp) ==
    IF resp.err THEN "L174"
    ELSE IF resp.status = 200 THEN "L185"
    ELSE "L138"

\* Lines 173-189: the statement reached after http.Get returned.
listObjectsSwitch(resp) ==
    IF resp.err THEN "L174"
    ELSE IF resp.status = 200
         THEN IF resp.decodable THEN "L185" ELSE "L182"
    ELSE "L138"

\* Faulty variant: the items are walked from the last to the first.
ItemAtReversed(items, k) == items[Len(items) - k + 1]

\* objectList.Items in the order of range, line 186.
ItemAt(items, k) == items[k]

SendPcs == {"L145", "L158", "L160", "L164", "L174", "L182", "L185", "L187"}

\* The line the goroutine of candidate i sends at its send statement.
LineAt(i) ==
    CASE pc[i] = "L145" -> Line(i, "ERROR", "")
      [] pc[i] = "L158" -> Line(i, "EXISTS", "")
      [] pc[i] = "L160" -> Line(i, "EXISTS", "")
      [] pc[i] = "L164" -> Line(i, "UNKNOWN", "")
      [] pc[i] = "L174" -> Line(i, "ERROR", "")
      [] pc[i] = "L182" -> Line(i, "ERROR", "")
      [] pc[i] = "L185" -> Line(i, "LISTABLE", "")
      [] pc[i] = "L187" -> Line(i, "OBJECT", ItemAt(listAnswer[i].items, objIdx[i]))

\* The statement after the send: listObjects is called after line 160, the
\* loop of line 186 follows line 185, everything else returns.
AfterSend(i) ==
    CASE pc[i] = "L160" -> "L172"
      [] pc[i] = "L185" -> IF Len(listAnswer[i].items) > 0 THEN "L187" ELSE "L138"
      [] pc[i] = "L187" -> IF objIdx[i] < Len(listAnswer[i].items) THEN "L187" ELSE "L138"
      [] OTHER -> "L138"

\* ---- main ----

\* Line 241: make(chan struct{}, n) panics when n is negative.
MakeSem ==
    /\ Running /\ mainPc = "L241"
    /\ IF concurrency < 0
       THEN proc' = "panic: makechan: size out of range" /\ UNCHANGED mainPc
       ELSE mainPc' = "L243" /\ UNCHANGED proc
    /\ UNCHANGED <<concurrency, verbose, nCand, spawned, wg, sem, pc, metaAnswer,
                   listAnswer, objIdx, closed, consumerPc, received, printed, genVars>>

\* Lines 243-250, one iteration: wg.Add(1) and the go statement.
Spawn ==
    /\ Running /\ mainPc = "L243"
    /\ spawned < nCand
    /\ wg' = wg + 1
    /\ pc' = [pc EXCEPT ![spawned + 1] = "L246"]
    /\ spawned' = spawned + 1
    /\ UNCHANGED <<concurrency, verbose, nCand, mainPc, proc, sem, metaAnswer,
                   listAnswer, objIdx, closed, consumerPc, received, printed, genVars>>

\* Lines 252-259: the go statement of the consumer, after the loop.
SpawnConsumer ==
    /\ Running /\ mainPc = "L243"
    /\ spawned = nCand
    /\ consumerPc' = "L253"
    /\ mainPc' = "L261"
    /\ UNCHANGED <<concurrency, verbose, nCand, proc, spawned, wg, sem, pc, metaAnswer,
                   listAnswer, objIdx, closed, received, printed, genVars>>

\* Line 261
WgWait ==
    /\ Running /\ mainPc = "L261"
    /\ WgWaitReturns(wg)
    /\ mainPc' = "L262"
    /\ UNCHANGED <<concurrency, verbose, nCand, proc, spawned, wg, sem, pc, metaAnswer,
                   listAnswer, objIdx, closed, consumerPc, received, printed, genVars>>

\* Line 262
CloseOutput ==
    /\ Running /\ mainPc = "L262"
    /\ closed' = TRUE
    /\ mainPc' = "L264"
    /\ UNCHANGED <<concurrency, verbose, nCand, proc, spawned, wg, sem, pc, metaAnswer,
                   listAnswer, objIdx, consumerPc, received, printed, genVars>>

\* Lines 264-265: the "Scan completed" summary.
PrintCompleted ==
    /\ Running /\ mainPc = "L264"
    /\ mainPc' = "L266"
    /\ UNCHANGED <<concurrency, verbose, nCand, proc, spawned, wg, sem, pc, metaAnswer,
                   listAnswer, objIdx, closed, consumerPc, received, printed, genVars>>

\* Line 266: main returns and the process ends, whatever the goroutines are at.
MainReturn ==
    /\ Running /\ mainPc = "L266"
    /\ proc' = "exited"
    /\ mainPc' = "returned"
    /\ UNCHANGED <<concurrency, verbose, nCand, spawned, wg, sem, pc, metaAnswer,
                   listAnswer, objIdx, closed, consumerPc, received, printed, genVars>>

MainStep ==
    \/ MakeSem
    \/ Spawn
    \/ SpawnConsumer
    \/ WgWait
    \/ CloseOutput
    \/ PrintCompleted
    \/ MainReturn

\* ---- the goroutine of candidate i, lines 245-249 ----

\* Line 246
SemAcquire(i) ==
    /\ Running /\ pc[i] = "L246"
    /\ SemCanSend(sem, concurrency)
    /\ sem' = sem + 1
    /\ pc' = [pc EXCEPT ![i] = "L143"]
    /\ UNCHANGED <<concurrency, verbose, nCand, mainPc, proc, spawned, wg, metaAnswer,
                   listAnswer, objIdx, closed, consumerPc, received, printed, genVars>>

\* Lines 143-166 up to the first send or return: the endpoint answers, and
\* checkBucket classifies the response http.Head returns.
Probe(i) ==
    /\ Running /\ pc[i] = "L143"
    /\ \E answer \in MetadataAnswers :
          /\ metaAnswer' = [metaAnswer EXCEPT ![i] = answer]
          /\ pc' = [pc EXCEPT ![i] = checkBucketSwitch(httpHead(answer), verbose)]
    /\ UNCHANGED <<concurrency, verbose, nCand, mainPc, proc, spawned, wg, sem,
                   listAnswer, objIdx, closed, consumerPc, received, printed, genVars>>

\* A send on the unbuffered output channel: it completes when the consumer
\* is receiving at line 253, and panics when the channel is closed.
Send(i) ==
    /\ Running /\ pc[i] \in SendPcs
    /\ IF closed
       THEN /\ proc' = "panic: send on closed channel"
            /\ UNCHANGED <<pc, objIdx, consumerPc, received>>
       ELSE /\ consumerPc = "L253"
            /\ received' = Append(received, LineAt(i))
            /\ consumerPc' = "L254"
            /\ pc' = [pc EXCEPT ![i] = AfterSend(i)]
            /\ objIdx' = [objIdx EXCEPT ![i] =
                             IF pc[i] \in {"L185", "L187"} THEN @ + 1 ELSE @]
            /\ UNCHANGED proc
    /\ UNCHANGED <<concurrency, verbose, nCand, mainPc, spawned, wg, sem, metaAnswer,
                   listAnswer, closed, printed, genVars>>

\* Lines 170-184: http.Get of the object index and the decoding of its body.
ListObjects(i) ==
    /\ Running /\ pc[i] = "L172"
    /\ \E answer \in IndexAnswers :
          /\ listAnswer' = [listAnswer EXCEPT ![i] = answer]
          /\ pc' = [pc EXCEPT ![i] = listObjectsSwitch(answer)]
    /\ UNCHANGED <<concurrency, verbose, nCand, mainPc, proc, spawned, wg, sem,
                   metaAnswer, objIdx, closed, consumerPc, received, printed, genVars>>

\* Line 138: the deferred wg.Done, run when checkBucket returns.
WgDone(i) ==
    /\ Running /\ pc[i] = "L138"
    /\ wg' = WgAfterDone(wg)
    /\ pc' = [pc EXCEPT ![i] = "L248"]
    /\ UNCHANGED <<concurrency, verbose, nCand, mainPc, proc, spawned, sem, metaAnswer,
                   listAnswer, objIdx, closed, consumerPc, received, printed, genVars>>

\* Line 248
SemRelease(i) ==
    /\ Running /\ pc[i] = "L248"
    /\ sem > 0
    /\ sem' = SemAfterRecv(sem)
    /\ pc' = [pc EXCEPT ![i] = "end"]
    /\ UNCHANGED <<concurrency, verbose, nCand, mainPc, proc, spawned, wg, metaAnswer,
                   listAnswer, objIdx, closed, consumerPc, received, printed, genVars>>

CandidateStep(i) ==
    \/ SemAcquire(i)
    \/ Probe(i)
    \/ Send(i)
    \/ ListObjects(i)
    \/ WgDone(i)
    \/ SemRelease(i)

\* ---- the consumer goroutine, lines 252-259 ----

\* Lines 254-257: the received line is printed (and written to the -o file).
ConsumerWrite ==
    /\ Running /\ consumerPc = "L254"
    /\ printed' = Append(printed, received[Len(printed) + 1])
    /\ consumerPc' = "L253"
    /\ UNCHANGED <<concurrency, verbose, nCand, mainPc, proc, spawned, wg, sem, pc,
                   metaAnswer, listAnswer, objIdx, closed, received, genVars>>

\* Line 253: range ends on the closed channel.
ConsumerEnd ==
    /\ Running /\ consumerPc = "L253"
    /\ closed
    /\ consumerPc' = "end"
    /\ UNCHANGED <<concurrency, verbose, nCand, mainPc, proc, spawned, wg, sem, pc,
                   metaAnswer, listAnswer, objIdx, closed, received, printed, genVars>>

ConsumerStep ==
    \/ ConsumerWrite
    \/ ConsumerEnd

Next ==
    \/ MainStep
    \/ \E i \in 1..MaxCand : CandidateStep(i)
    \/ ConsumerStep

Spec == Init /\ [][Next]_vars

\* The Go scheduler runs every goroutine that can take a step.
FairSpec ==
    /\ Spec
    /\ WF_vars(MainStep)
    /\ WF_vars(ConsumerStep)
    /\ \A i \in 1..MaxCand : WF_vars(CandidateStep(i))

-----------------------------------------------------------------------------
(* Claims about the Name Generator, checked under GenSpec *)

\* The candidate names the spec allows for keyword k and suffixes S, written
\* by concatenation.
SixTemplateForms(k, s) ==
    { k \o <<"-">> \o s, s \o <<"-">> \o k,
      k \o <<"_">> \o s, s \o <<"_">> \o k,
      k \o s, s \o k }

FourKeywordForms(k) ==
    { k, k \o <<".", "c", "o", "m">>, k \o <<".", "n", "e", "t">>,
      k \o <<".", "o", "r", "g">> }

SpecifiedForms(k, S) ==
    UNION {SixTemplateForms(k, s) : s \in S} \cup FourKeywordForms(k)

\* C9: for every keyword k and suffix list S, generatePermutations(k, S) has
\* no duplicate entries and every entry is one of k-s, s-k, k_s, s_k, ks, sk
\* for some s in S, or one of k, k.com, k.net, k.org.
C9_GeneratedAreSpecifiedForms ==
    \A j \in 1..Len(perKeyword) :
        /\ NoDuplicates(perKeyword[j])
        /\ Range(perKeyword[j]) \subseteq
               SpecifiedForms(keywords[j], Range(wordlistFile.lines))

\* C10: with an empty suffix list generatePermutations(k, <<>>) returns
\* exactly k, k.com, k.net, k.org, each once, and nothing else.
C10_EmptySuffixesGiveKeywordForms ==
    \A j \in 1..Len(perKeyword) :
        wordlistFile.lines = <<>> =>
            /\ NoDuplicates(perKeyword[j])
            /\ Len(perKeyword[j]) <= 4
            /\ Range(perKeyword[j]) = FourKeywordForms(keywords[j])

\* C10 witness: generatePermutations has run on a non-empty keyword with an
\* empty wordlist and returned four names.
C10_Witness ==
    /\ wordlistFile = File(<<>>)
    /\ Len(perKeyword) >= 1
    /\ keywords[1] # <<>>
    /\ Len(perKeyword[1]) = 4

-----------------------------------------------------------------------------
(* Claims about the scan, checked under Spec and FairSpec *)

Candidates == 1..nCand

\* Candidate i holds a permit: it is between line 246 and line 248.
Holding(i) == pc[i] \in {"L143", "L172", "L138", "L248"} \cup SendPcs

\* checkBucket has returned (its deferred wg.Done has run).
Completed(i) == pc[i] \in {"L248", "end"}

\* checkBucket is returning or has returned: every send of i is behind it.
SendsOver(i) == pc[i] \in {"L138", "L248", "end"}

LinesOf(i) == SelectSeq(received, LAMBDA l : l.src = i)

IsPrefix(p, q) == Len(p) <= Len(q) /\ p = SubSeq(q, 1, Len(p))

ListerInvoked(i) == pc[i] = "L172" \/ listAnswer[i] # NoIndexAnswer

Is404(i) == ~metaAnswer[i].err /\ metaAnswer[i].status = 404
Is403(i) == ~metaAnswer[i].err /\ metaAnswer[i].status = 403
Is200(i) == ~metaAnswer[i].err /\ metaAnswer[i].status = 200
IsTransportError(i) == metaAnswer[i].err

\* C1: with a concurrency limit C >= 1, in every reachable state at most C
\* candidates hold a permit.
C1_AtMostCPermitHolders ==
    concurrency >= 1 =>
        Cardinality({i \in 1..MaxCand : Holding(i)}) <= concurrency

\* C1 witness: the pool is exhausted (C candidates hold a permit) while one
\* more candidate is blocked at the acquire of line 246.
C1_Witness ==
    /\ concurrency = 1
    /\ Cardinality({i \in 1..MaxCand : Holding(i)}) = concurrency
    /\ \E i \in Candidates : pc[i] = "L246"

ScanTerminated ==
    /\ \A i \in Candidates : Completed(i)
    /\ mainPc \in {"L264", "L266", "returned"}
    /\ closed

\* C2: for C >= 1 and any candidate set, under fair scheduling the scan
\* terminates: every candidate's checkBucket returns and is counted by the
\* WaitGroup, wg.Wait returns and output is closed, for every mix of probe
\* outcomes.
C2_ScanTerminates ==
    concurrency >= 1 => <>ScanTerminated

\* C2 witness: a scan of two candidates whose probes both failed with a
\* transport error has terminated.
C2_Witness ==
    /\ nCand = 2
    /\ \A i \in Candidates : IsTransportError(i)
    /\ ScanTerminated
    /\ proc = "exited"

GroupKinds == {"EXISTS", "LISTABLE", "OBJECT"}

\* C3: the EXISTS, LISTABLE and object lines one candidate sends are
\* contiguous in the sequence the consumer receives: no line of another
\* candidate lies between two of them.
C3_GroupsContiguous ==
    \A a, b, c \in 1..Len(received) :
        ( /\ a < b /\ b < c
          /\ received[a].src = received[c].src
          /\ received[a].kind \in GroupKinds
          /\ received[c].kind \in GroupKinds )
            => received[b].src = received[a].src

ListingLines(i) ==
    <<Line(i, "EXISTS", ""), Line(i, "LISTABLE", "")>>
    \o [k \in 1..Len(listAnswer[i].items) |-> Line(i, "OBJECT", listAnswer[i].items[k])]

Listed(i) ==
    /\ Is200(i)
    /\ ~listAnswer[i].err /\ listAnswer[i].status = 200 /\ listAnswer[i].decodable

\* C4: for a candidate whose probe returns 200 and whose object index
\* returns 200 with a decodable body of n items, the consumer receives one
\* EXISTS line, then one LISTABLE line, then the n object lines in the order
\* of the items, and nothing else from that candidate.
C4_ListingLinesInOrder ==
    \A i \in Candidates :
        Listed(i) =>
            /\ IsPrefix(LinesOf(i), ListingLines(i))
            /\ SendsOver(i) => LinesOf(i) = ListingLines(i)

\* C4 witness: candidate 1 has sent its group for the items a.txt, b.txt
\* and lines of the other candidate were received as well.
C4_Witness ==
    /\ Listed(1)
    /\ listAnswer[1].items = <<"a.txt", "b.txt">>
    /\ pc[1] = "end"
    /\ Len(LinesOf(1)) = 4
    /\ Len(received) > 4

\* C5: for a candidate whose probe returns 404 no line is ever sent,
\* verbose or not, and listObjects is never called.
C5_NotFoundIsSilent ==
    \A i \in Candidates :
        Is404(i) =>
            /\ LinesOf(i) = <<>>
            /\ pc[i] \notin SendPcs
            /\ ~ListerInvoked(i)

\* C5 witness: a candidate answered with 404 has run to its end in verbose
\* mode.
C5_Witness ==
    /\ verbose
    /\ \E i \in Candidates : Is404(i) /\ pc[i] = "end"

DenialPhrase(body) == Contains(body, AccessDenied) \/ Contains(body, DoesNotHave)

\* C6: for a candidate whose metadata endpoint answers 403: when the
\* endpoint's body contains "Access denied" no line is emitted; when it
\* contains no denial phrase exactly one EXISTS line is emitted and
\* listObjects is never called.
C6_Status403Classification ==
    \A i \in Candidates :
        Is403(i) =>
            /\ Contains(metaAnswer[i].body, AccessDenied) =>
                   /\ LinesOf(i) = <<>>
                   /\ pc[i] \notin SendPcs
            /\ ~DenialPhrase(metaAnswer[i].body) =>
                   /\ IsPrefix(LinesOf(i), <<Line(i, "EXISTS", "")>>)
                   /\ SendsOver(i) => LinesOf(i) = <<Line(i, "EXISTS", "")>>
                   /\ ~ListerInvoked(i)

\* C7: output is closed only when every spawned candidate has finished all
\* of its sends, and no goroutine ever sends on the closed channel.
C7_CloseAfterAllSends ==
    /\ closed => /\ spawned = nCand
                 /\ \A i \in Candidates : Completed(i)
    /\ proc # "panic: send on closed channel"

\* C7 witness: output has been closed after two candidates sent lines.
C7_Witness ==
    /\ closed
    /\ nCand = 2
    /\ \A i \in Candidates : LinesOf(i) # <<>>

\* C8 as stated: every candidate that acquires a permit eventually releases it.
C8_EveryHolderReleases ==
    \A i \in 1..MaxCand : Holding(i) ~> (pc[i] = "end")

\* C8 as amended: the buffer of sem holds one element per permit holder (a
\* release takes exactly the one permit out, on every probe outcome); every
\* holder releases unless the process exits first, which main can do once
\* the last candidates have called wg.Done and before they reach line 248;
\* and with C >= 1 a candidate waiting for a permit eventually gets one.
C8_ReleaseUnlessExited ==
    /\ [](sem = Cardinality({i \in 1..MaxCand : Holding(i)}))
    /\ \A i \in 1..MaxCand : Holding(i) ~> (pc[i] = "end" \/ proc = "exited")
    /\ \A i \in 1..MaxCand :
           (concurrency >= 1 /\ pc[i] = "L246") ~> (pc[i] # "L246")

\* C8 witness: with one permit, candidate 1 has released it after a probe
\* that failed with a transport error and candidate 2, which had to wait,
\* holds it now.
C8_Witness ==
    /\ concurrency = 1
    /\ nCand = 2
    /\ pc[1] = "end" /\ IsTransportError(1)
    /\ Holding(2)

IsOtherStatus(i) ==
    ~metaAnswer[i].err /\ metaAnswer[i].status \notin {0, 200, 403, 404}

\* C11: for a candidate whose probe returns a status other than 404, 403
\* and 200, an UNKNOWN line is sent if and only if verbose mode is on; with
\* verbose off no line at all is emitted; listObjects is never called.
C11_UnknownOnlyWhenVerbose ==
    \A i \in Candidates :
        IsOtherStatus(i) =>
            /\ ~ListerInvoked(i)
            /\ verbose =>
                   /\ IsPrefix(LinesOf(i), <<Line(i, "UNKNOWN", "")>>)
                   /\ SendsOver(i) => LinesOf(i) = <<Line(i, "UNKNOWN", "")>>
            /\ ~verbose =>
                   /\ LinesOf(i) = <<>>
                   /\ pc[i] \notin SendPcs

\* C11 witness: in verbose mode a candidate answered with status 500 has
\* sent its UNKNOWN line and run to its end.
C11_Witness ==
    /\ verbose
    /\ \E i \in Candidates :
          /\ IsOtherStatus(i) /\ pc[i] = "end"
          /\ LinesOf(i) = <<Line(i, "UNKNOWN", "")>>

\* The lines a candidate's own answers determine, where the outcome fixes
\* them: none for 404, none or one EXISTS line for 403, none or one UNKNOWN
\* line for another status, the group of C4 for a listing.
OwnOutcomeLines(j) ==
    /\ Is404(j) => LinesOf(j) = <<>>
    /\ Is403(j) => IsPrefix(LinesOf(j), <<Line(j, "EXISTS", "")>>)
    /\ IsOtherStatus(j) => IsPrefix(LinesOf(j), <<Line(j, "UNKNOWN", "")>>)
    /\ Is200(j) => /\ LinesOf(j) # <<>> \/ pc[j] = "L160"
                   /\ LinesOf(j) # <<>> => LinesOf(j)[1] = Line(j, "EXISTS", "")
    /\ (Listed(j) /\ SendsOver(j)) => LinesOf(j) = ListingLines(j)

\* C12: for a candidate whose probe fails at transport level exactly one
\* ERROR line is emitted and no EXISTS, LISTABLE or object line; the failure
\* stays local: the candidate is counted by the barrier and every other
\* candidate is probed and emits the lines of its own outcome.
C12_TransportErrorIsLocal ==
    /\ [](\A i \in Candidates :
             IsTransportError(i) =>
                 /\ IsPrefix(LinesOf(i), <<Line(i, "ERROR", "")>>)
                 /\ SendsOver(i) => LinesOf(i) = <<Line(i, "ERROR", "")>>
                 /\ ~ListerInvoked(i)
                 /\ \A j \in Candidates \ {i} : OwnOutcomeLines(j))
    /\ (concurrency >= 1 /\ \E i \in Candidates : IsTransportError(i))
           ~> (\A j \in Candidates : Completed(j) /\ metaAnswer[j] # NoAnswer)

\* C12 witness: candidate 1's probe failed at transport level and it sent
\* its ERROR line; candidate 2 was probed, listed two objects and sent its
\* whole group.
C12_Witness ==
    /\ nCand = 2
    /\ IsTransportError(1) /\ pc[1] = "end"
    /\ LinesOf(1) = <<Line(1, "ERROR", "")>>
    /\ Listed(2) /\ pc[2] = "end"
    /\ Len(LinesOf(2)) = 4

ListingFailed(i) ==
    /\ Is200(i)
    /\ \/ listAnswer[i].err
       \/ ~listAnswer[i].err /\ listAnswer[i].status = 200 /\ ~listAnswer[i].decodable

\* C13: when listObjects is called and its request fails at transport level
\* or its body cannot be decoded, the listing step emits exactly one ERROR
\* line and no LISTABLE or object line; the EXISTS line was emitted before
\* and stays.
C13_ListingFailureIsOneErrorLine ==
    \A i \in Candidates :
        ListingFailed(i) =>
            /\ LinesOf(i) # <<>>
            /\ IsPrefix(LinesOf(i), <<Line(i, "EXISTS", ""), Line(i, "ERROR", "")>>)
            /\ SendsOver(i) =>
                   LinesOf(i) = <<Line(i, "EXISTS", ""), Line(i, "ERROR", "")>>

\* C13 witness: a candidate whose object index came back undecodable has
\* sent EXISTS and ERROR, and the other candidate has run as well.
C13_Witness ==
    /\ nCand = 2
    /\ \E i \in Candidates :
          /\ ListingFailed(i) /\ ~listAnswer[i].err
          /\ pc[i] = "end"
          /\ LinesOf(i) = <<Line(i, "EXISTS", ""), Line(i, "ERROR", "")>>
    /\ \A j \in Candidates : pc[j] = "end"

\* Every candidate is spawned and blocked at the send of line 246: the
\* buffer of sem is empty and still takes no element.
AllBlockedAcquiring ==
    /\ nCand > 0
    /\ spawned = nCand
    /\ \A i \in Candidates : pc[i] = "L246"
    /\ sem = 0
    /\ ~SemCanSend(sem, concurrency)

\* C15: the permit pool of a scan has capacity >= 1 for every value of -c
\* the program accepts: a scan over a non-empty candidate set never reaches
\* a state in which every candidate is blocked acquiring a permit while no
\* permit is held.
C15_PoolHasASlot ==
    (proc = "running" /\ mainPc # "L241") => ~AllBlockedAcquiring

\* C16: every line sent on output has been printed by the consumer before
\* main prints the "Scan completed" summary and exits: no line is lost or
\* handled after the summary.
C16_AllLinesHandledBeforeSummary ==
    mainPc \in {"L266", "returned"} => printed = received

\* C18: whenever listObjects is called for a candidate, the listing step
\* emits at least one line after the EXISTS line: the LISTABLE header or
\* exactly one ERROR line, for every response of the object-index endpoint.
C18_ListingAlwaysEmits ==
    \A i \in Candidates :
        (ListerInvoked(i) /\ SendsOver(i)) =>
            /\ Len(LinesOf(i)) >= 2
            /\ LinesOf(i)[1] = Line(i, "EXISTS", "")
            /\ \/ LinesOf(i)[2] = Line(i, "LISTABLE", "")
               \/ LinesOf(i) = <<Line(i, "EXISTS", ""), Line(i, "ERROR", "")>>

-----------------------------------------------------------------------------
(* Claims about the set-up, checked under GenSpec *)

ErrorTexts ==
    { "ERROR: Provide either a keyword", "ERROR: Unable to read file",
      "ERROR: Could not create output file" }

IsError(m) == m.text \in ErrorTexts

SetupEnded == setupPc \in {"returned", "exit1"}

\* C14 as stated: every fatal setup error is reported and ends the run
\* before the "Generated" summary is printed and before the scan starts.
C14_FatalErrorsBeforeSummary ==
    \A a \in 1..Len(stdout) :
        IsError(stdout[a]) =>
            /\ SetupEnded
            /\ \A b \in 1..Len(stdout) : stdout[b].text # "Generated"

\* C14 as amended: an error message is the last thing the set-up prints and
\* ends the run before the scan starts; the messages for missing input and
\* for an unreadable file come before the "Generated" summary, the message
\* for an uncreatable output file comes right after it; the scan starts
\* only with a keyword source given and readable, an output file that could
\* be created, and a wordlist that is readable unless there is no keyword
\* to read it for.
C14_FatalErrorsBeforeScan ==
    /\ \A a \in 1..Len(stdout) :
           IsError(stdout[a]) =>
               /\ SetupEnded
               /\ a = Len(stdout)
               /\ IF stdout[a].text = "ERROR: Could not create output file"
                  THEN a = 2 /\ stdout[1].text = "Generated"
                  ELSE a = 1
    /\ setupPc = "scan" =>
           /\ keywordFlag # <<>> \/ keywordList # NoFlag
           /\ keywordList # Unreadable
           /\ wordlistFile # Unreadable \/ keywords = <<>>
           /\ outFile # "fail"
           /\ stdout = <<Message("Generated", Len(buckets), Len(keywords))>>
    /\ SetupEnded => stdout # <<>> /\ IsError(stdout[Len(stdout)])

\* C14 witness: the output file could not be created, after the names of a
\* keyword were generated and the summary was printed.
C14_Witness ==
    /\ setupPc = "returned"
    /\ outFile = "fail"
    /\ Len(buckets) > 0
    /\ Len(stdout) = 2
    /\ stdout[2].text = "ERROR: Could not create output file"

PlainKeyword(k) == k # <<>> /\ k # Placeholder_suffix /\ k # Placeholder_keyword

\* C17 as stated, for keywords that are non-empty and free of placeholder
\* text: with pairwise distinct keywords no candidate name appears more
\* than once in the master list.
C17_MasterListHasNoDuplicates ==
    ( /\ NoDuplicates(keywords)
      /\ \A j \in 1..Len(keywords) : PlainKeyword(keywords[j]) )
        => NoDuplicates(buckets)

\* C17 as amended: the master list is the concatenation of the per-keyword
\* results and no name appears more than once within the part generated for
\* one keyword; a name can be generated for two distinct keywords, and then
\* it is in the list twice.
C17_NoDuplicatesPerKeyword ==
    /\ buckets = Flatten(perKeyword)
    /\ \A j \in 1..Len(perKeyword) : NoDuplicates(perKeyword[j])

\* C17 witness: the keywords a and ab with the suffix b: ab is generated for
\* both and the master list holds it twice.
C17_Witness ==
    /\ keywords = << <<"a">>, <<"a", "b">> >>
    /\ wordlistFile = File(<< <<"b">> >>)
    /\ kwIdx = 2
    /\ ~NoDuplicates(buckets)
    /\ NoDuplicates(perKeyword[1]) /\ NoDuplicates(perKeyword[2])

\* The sequence the spec describes, by concatenation: for each suffix in
\* order k-s, s-k, k_s, s_k, ks, sk, then k, k.com, k.net, k.org.
SpecifiedSequence(k, S) ==
    Flatten([j \in 1..Len(S) |->
                << k \o <<"-">> \o S[j], S[j] \o <<"-">> \o k,
                   k \o <<"_">> \o S[j], S[j] \o <<"_">> \o k,
                   k \o S[j], S[j] \o k >>])
    \o << k, k \o <<".", "c", "o", "m">>, k \o <<".", "n", "e", "t">>,
          k \o <<".", "o", "r", "g">> >>

\* q without the elements that occurred earlier in q.
RECURSIVE FirstOccurrencesFrom(_, _)
FirstOccurrencesFrom(q, n) ==
    IF n > Len(q) THEN <<>>
    ELSE (IF \E m \in 1..(n - 1) : q[m] = q[n] THEN <<>> ELSE <<q[n]>>)
         \o FirstOccurrencesFrom(q, n + 1)

\* C19: generatePermutations(k, S) is the sequence of the six template
\* forms per suffix, in order, followed by k, k.com, k.net, k.org, with
\* every element that occurred earlier deleted.
C19_FirstOccurrenceOrder ==
    \A j \in 1..Len(perKeyword) :
        perKeyword[j] =
            FirstOccurrencesFrom(SpecifiedSequence(keywords[j], wordlistFile.lines), 1)

\* C20: every keyword passed to generatePermutations is non-empty.
C20_KeywordsNonEmpty ==
    \A j \in 1..Len(perKeyword) : keywords[j] # <<>>

====
